---- MODULE Spec2Model ----
(***************************************************************************)
(* A model of vcf_utils: the VEP filter-expression parser and evaluator   *)
(* (subset_vep_vcf.py) and the VCF reader with its variant locator and    *)
(* genotype / allele-frequency extraction (parse_vep_vcf.py).             *)
(*                                                                         *)
(* Python strings are sequences of one-character strings, so that         *)
(* substring tests, split and strip are computed and not assumed.         *)
(***************************************************************************)
EXTENDS Integers, Sequences, FiniteSets, TLC

VARIABLES
    \* ---- filter expression (subset_vep_vcf.py) ----
    given,      \* the structure the expression text was written from
    expr,       \* args.expr, the text handed to build_tree
    root,       \* the tree under StemNode('root'), or the exception raised
    annot,      \* the annotation map last handed to root.eval
    result,     \* what root.eval returned or raised
    fpc,        \* "start" | "built" | "evaluated"
    \* ---- reader (parse_vep_vcf.py) ----
    file,       \* the data lines of the VCF, after the #CHROM line
    vcf,        \* self.vcf: file or generator, the lines not yet consumed, open or closed
    outOpen,    \* the output stream is open
    output,     \* the lines written to the output stream
    line,       \* self.line
    fields,     \* the line self.fields, self.format, self.annotations were parsed from
    reading,    \* self.reading
    rpc,        \* position of the run
    args,       \* the arguments of the run: gene lists, whether an output was given
    call,       \* the last locator / extractor call and its arguments
    ret         \* what that call returned

fvars == <<given, expr, root, annot, result, fpc>>
rvars == <<file, vcf, outOpen, output, line, fields, reading, rpc, args, call, ret>>
vars == <<given, expr, root, annot, result, fpc,
          file, vcf, outOpen, output, line, fields, reading, rpc, args, call, ret>>

(***************************************************************************)
(* Python string primitives                                                *)
(***************************************************************************)

\* t occurs in s at 1-based position i
OccursAt(s, t, i) ==
    /\ i >= 1
    /\ i + Len(t) - 1 <= Len(s)
    /\ \A j \in 1..Len(t) : s[i + j - 1] = t[j]

\* Python's `t in s` for strings
StrIn(t, s) == \E i \in 1..(Len(s) + 1) : OccursAt(s, t, i)

\* position of the first occurrence of t in s (0 when there is none)
Find(s, t) ==
    IF StrIn(t, s)
    THEN CHOOSE i \in 1..(Len(s) + 1) :
            /\ OccursAt(s, t, i)
            /\ \A j \in 1..(i - 1) : ~OccursAt(s, t, j)
    ELSE 0

\* Python's s.split(t): cut at every occurrence, left to right
RECURSIVE PySplit(_, _)
PySplit(s, t) ==
    LET i == Find(s, t)
    IN  IF i = 0 THEN <<s>>
        ELSE <<SubSeq(s, 1, i - 1)>> \o PySplit(SubSeq(s, i + Len(t), Len(s)), t)

\* Python's s.strip(chars)
PyStrip(s, chars) ==
    LET keep == {i \in 1..Len(s) : s[i] \notin chars}
    IN  IF keep = {} THEN <<>>
        ELSE LET lo == CHOOSE i \in keep : \A j \in keep : i <= j
                 hi == CHOOSE i \in keep : \A j \in keep : j <= i
             IN  SubSeq(s, lo, hi)

Whitespace == {" "}

SeqToSet(s) == {s[i] : i \in 1..Len(s)}

(***************************************************************************)
(* subset_vep_vcf.py: parse_expression                                     *)
(***************************************************************************)

\* the first loop: i and a are Python's 0-based indices, e[a:i] is SubSeq(e, a+1, i)
RECURSIVE ScanChars(_, _, _, _, _)
ScanChars(e, i, a, nesting, conditions) ==
    IF i = Len(e) THEN conditions \o <<SubSeq(e, a + 1, i)>>
    ELSE LET char == e[i + 1]
         IN  IF char = "(" THEN ScanChars(e, i + 1, a, nesting + 1, conditions)
             ELSE IF char = ")" THEN ScanChars(e, i + 1, a, nesting - 1, conditions)
             ELSE IF char \in {"&", "|"} /\ nesting = 0
                  THEN ScanChars(e, i + 1, i, nesting, conditions \o <<SubSeq(e, a + 1, i)>>)
             ELSE ScanChars(e, i + 1, a, nesting, conditions)

StartsWithConj(cond) == Len(cond) >= 1 /\ cond[1] \in {"&", "|"}

\* returns newconds and conjunctions
parse_expression(e) ==
    LET conditions == ScanChars(e, 0, 0, 0, <<>>)
        withConj == SelectSeq(conditions, StartsWithConj)
    IN  [clauses |-> [k \in 1..Len(conditions) |->
                        IF StartsWithConj(conditions[k])
                        THEN SubSeq(conditions[k], 2, Len(conditions[k]))
                        ELSE conditions[k]],
         conjuncts |-> [k \in 1..Len(withConj) |-> withConj[k][1]]]

(***************************************************************************)
(* subset_vep_vcf.py: LeafNode                                             *)
(***************************************************************************)

TokNE == <<"!", "=">>
TokNCONTAINS == <<"!", "C", "O", "N", "T", "A", "I", "N", "S">>
TokNIN == <<"!", "I", "N">>
TokNMATCH == <<"!", "~">>
TokEQ == <<"=">>
TokCONTAINS == <<"C", "O", "N", "T", "A", "I", "N", "S">>
TokIN == <<"I", "N">>
TokMATCH == <<"~">>

\* the tokens in the order of define_operator's if / elif chain
OperatorChain == <<TokNE, TokNCONTAINS, TokNIN, TokNMATCH, TokEQ, TokCONTAINS, TokIN, TokMATCH>>

Node(kind, oper, key, val, children) ==
    [kind |-> kind, oper |-> oper, key |-> key, val |-> val, children |-> children,
     exc |-> ""]

\* an exception raised while the tree is built
Raised(what) ==
    [kind |-> "error", oper |-> <<>>, key |-> <<>>, val |-> <<>>, children |-> <<>>,
     exc |-> what]

\* safe_split, then the lambda of the matching branch
safe_split(e, by) ==
    LET l == PySplit(e, by)
    IN  IF Len(l) # 2 THEN Raised("Non-binary expression")
        ELSE Node("leaf", by, PyStrip(l[1], Whitespace), PyStrip(l[2], Whitespace), <<>>)

define_operator(e) ==
    LET hits == {k \in 1..Len(OperatorChain) : StrIn(OperatorChain[k], e)}
    IN  IF hits = {} THEN Raised("Invalid logical expression")
        ELSE safe_split(e, OperatorChain[CHOOSE k \in hits : \A m \in hits : k <= m])

LeafNode(e) == define_operator(e)

(***************************************************************************)
(* subset_vep_vcf.py: build_tree                                           *)
(***************************************************************************)

StripChars == {"(", " ", ")"}

\* the children of a new StemNode, built in order; the first exception ends the build
RECURSIVE build_tree(_), BuildChildren(_, _, _)
BuildChildren(clauses, k, done) ==
    IF k > Len(clauses) THEN done
    ELSE LET child == build_tree(PyStrip(clauses[k], StripChars))
         IN  IF child.kind = "error" THEN <<child>>
             ELSE BuildChildren(clauses, k + 1, done \o <<child>>)

\* the node build_tree adds to its parent, or the exception it raises
build_tree(e) ==
    LET p == parse_expression(e)
    IN  IF "&" \in SeqToSet(p.conjuncts) /\ "|" \in SeqToSet(p.conjuncts)
        THEN Raised("Invalid logical expression. Consider using parentheses.")
        ELSE IF Len(p.clauses) = 1 THEN LeafNode(p.clauses[1])
        ELSE LET oper == p.conjuncts[1]
                 kids == BuildChildren(p.clauses, 1, <<>>)
             IN  IF Len(kids) >= 1 /\ kids[Len(kids)].kind = "error"
                 THEN kids[Len(kids)]
                 ELSE Node("stem", <<oper>>, <<>>, <<>>, kids)

(***************************************************************************)
(* subset_vep_vcf.py: StemNode.eval, LeafNode.eval                         *)
(***************************************************************************)

\* characters the re module reads as syntax; patterns in the model hold none
RegexMeta == {"(", ")", "|", ".", "*", "+", "?", "[", "]", "^", "$", "{", "}"}

\* re.match(pattern, s) for a pattern of literal characters: s starts with pattern
re_match(pattern, s) ==
    IF SeqToSet(pattern) \cap RegexMeta # {} THEN "re.error"
    ELSE IF OccursAt(s, pattern, 1) THEN "True" ELSE "False"

Truth(b) == IF b THEN "True" ELSE "False"
Negate(r) == IF r = "True" THEN "False" ELSE IF r = "False" THEN "True" ELSE r

\* the lambda define_operator returned, applied to d
LeafEval(n, d) ==
    IF n.key \notin DOMAIN d THEN "KeyError"
    ELSE LET x == d[n.key]
         IN  IF n.oper = TokNE THEN Truth(x # n.val)
             ELSE IF n.oper = TokNCONTAINS THEN Truth(n.val \notin SeqToSet(PySplit(x, <<",">>)))
             ELSE IF n.oper = TokNIN THEN Truth(x \notin SeqToSet(PySplit(n.val, <<",">>)))
             ELSE IF n.oper = TokNMATCH THEN Negate(re_match(n.val, x))
             ELSE IF n.oper = TokEQ THEN Truth(x = n.val)
             ELSE IF n.oper = TokCONTAINS THEN Truth(n.val \in SeqToSet(PySplit(x, <<",">>)))
             ELSE IF n.oper = TokIN THEN Truth(x \in SeqToSet(PySplit(n.val, <<",">>)))
             ELSE re_match(n.val, x)

\* any(...) / all(...) over the children, left to right, stopping at the first
\* child that decides the result or raises
RECURSIVE NodeEval(_, _), AnyAll(_, _, _, _)
AnyAll(children, k, d, stopOn) ==
    IF k > Len(children) THEN Negate(stopOn)
    ELSE LET r == NodeEval(children[k], d)
         IN  IF r \in {"True", "False"} /\ r # stopOn
             THEN AnyAll(children, k + 1, d, stopOn)
             ELSE r

NodeEval(n, d) ==
    IF n.kind = "leaf" THEN LeafEval(n, d)
    ELSE IF Len(n.children) < 2 THEN "Exception"
    ELSE IF n.oper = <<"|">> THEN AnyAll(n.children, 1, d, "True")
    ELSE IF n.oper = <<"&">> THEN AnyAll(n.children, 1, d, "False")
    ELSE "Exception"

\* StemNode('root').eval: its single child decides
RootEval(r, d) == NodeEval(r, d)

(***************************************************************************)
(* Filter expressions the model is run on.  An expression is written from *)
(* a structure (predicates, conjunction levels, parentheses), which also  *)
(* gives its Boolean meaning.                                              *)
(***************************************************************************)

KeyA == <<"A">>
KeyB == <<"B">>
KeyC == <<"C">>
KeyINT == <<"I", "N", "T">>
Val0 == <<"0">>
Val1 == <<"1">>
Val01 == <<"0", ",", "1">>
ValAeqB == <<"a", "=", "b">>

\* key op value, with `pad` between them
Pred(k, op, v, pad) ==
    [t |-> "pred", k |-> k, op |-> op, v |-> v, pad |-> pad, conjs |-> <<>>, kids |-> <<>>]
\* clause conj clause ..., conjs[i] joining kids[i] and kids[i+1]
Level(kids, conjs) ==
    [t |-> "level", k |-> <<>>, op |-> <<>>, v |-> <<>>, pad |-> <<>>, conjs |-> conjs,
     kids |-> kids]
\* ( expr )
Paren(e) ==
    [t |-> "paren", k |-> <<>>, op |-> <<>>, v |-> <<>>, pad |-> <<>>, conjs |-> <<>>,
     kids |-> <<e>>]
EmptyExpr ==
    [t |-> "empty", k |-> <<>>, op |-> <<>>, v |-> <<>>, pad |-> <<>>, conjs |-> <<>>,
     kids |-> <<>>]

RECURSIVE Render(_), RenderKids(_, _)
RenderKids(g, i) ==
    IF i > Len(g.kids) THEN <<>>
    ELSE (IF i = 1 THEN <<>> ELSE <<" ", g.conjs[i - 1], " ">>)
         \o Render(g.kids[i]) \o RenderKids(g, i + 1)
Render(g) ==
    IF g.t = "empty" THEN <<>>
    ELSE IF g.t = "pred" THEN g.k \o g.pad \o g.op \o g.pad \o g.v
    ELSE IF g.t = "paren" THEN <<"(">> \o Render(g.kids[1]) \o <<")">>
    ELSE RenderKids(g, 1)

\* every nesting level joins its clauses with one conjunction
RECURSIVE OneConjPerLevel(_)
OneConjPerLevel(g) ==
    /\ g.t = "level" => \A i, j \in 1..Len(g.conjs) : g.conjs[i] = g.conjs[j]
    /\ \A i \in 1..Len(g.kids) : OneConjPerLevel(g.kids[i])

\* the meaning of one predicate (spec 4.4), the key being present
PredMeaning(g, d) ==
    LET x == d[g.k]
    IN  IF g.op = TokEQ THEN x = g.v
        ELSE IF g.op = TokNE THEN x # g.v
        ELSE IF g.op = TokIN THEN x \in SeqToSet(PySplit(g.v, <<",">>))
        ELSE IF g.op = TokNIN THEN x \notin SeqToSet(PySplit(g.v, <<",">>))
        ELSE IF g.op = TokCONTAINS THEN g.v \in SeqToSet(PySplit(x, <<",">>))
        ELSE IF g.op = TokNCONTAINS THEN g.v \notin SeqToSet(PySplit(x, <<",">>))
        ELSE IF g.op = TokMATCH THEN OccursAt(x, g.v, 1)
        ELSE ~OccursAt(x, g.v, 1)

\* the Boolean value of an expression with one conjunction per level
RECURSIVE Meaning(_, _)
Meaning(g, d) ==
    IF g.t = "empty" THEN TRUE
    ELSE IF g.t = "pred" THEN PredMeaning(g, d)
    ELSE IF g.t = "paren" THEN Meaning(g.kids[1], d)
    ELSE IF g.conjs[1] = "&" THEN \A i \in 1..Len(g.kids) : Meaning(g.kids[i], d)
    ELSE \E i \in 1..Len(g.kids) : Meaning(g.kids[i], d)

RECURSIVE KeysOf(_)
KeysOf(g) ==
    IF g.t = "pred" THEN {g.k}
    ELSE UNION {KeysOf(g.kids[i]) : i \in 1..Len(g.kids)}

Conj == {"&", "|"}
NoPad == <<>>
TreeAtoms == {Pred(KeyA, TokEQ, Val1, NoPad), Pred(KeyB, TokEQ, Val1, NoPad),
              Pred(KeyC, TokNE, Val1, NoPad)}

Two == {Level(<<p, q>>, <<c>>) : p \in TreeAtoms, q \in TreeAtoms, c \in Conj}
Three == {Level(<<p, q, r>>, <<c, d>>) :
            p \in TreeAtoms, q \in TreeAtoms, r \in TreeAtoms, c \in Conj, d \in Conj}

TreeExprs ==
    Two \cup Three
    \cup {Paren(p) : p \in TreeAtoms}
    \cup {Paren(e) : e \in Two \cup Three}
    \cup {Level(<<p, Paren(e)>>, <<c>>) : p \in TreeAtoms, e \in Two \cup Three, c \in Conj}
    \cup {Level(<<Paren(e), p>>, <<c>>) : p \in TreeAtoms, e \in Two, c \in Conj}
    \cup {Level(<<Paren(e), Paren(f)>>, <<c>>) : e \in Two, f \in Two, c \in Conj}
    \cup {Level(<<Paren(Level(<<Paren(e), p>>, <<c>>)), q>>, <<d>>) :
            e \in Two, p \in TreeAtoms, q \in TreeAtoms, c \in Conj, d \in Conj}

LeafExprs ==
    {Pred(k, OperatorChain[o], v, pad) :
        k \in {KeyA, KeyINT}, o \in 1..Len(OperatorChain),
        v \in {Val1, Val01, ValAeqB}, pad \in {NoPad, <<" ">>}}

Exprs == {EmptyExpr} \cup TreeExprs \cup LeafExprs

AnnotKeys == {KeyA, KeyB, KeyC}
EmptyAnnotation == [k \in {} |-> <<>>]
Annotations ==
    [AnnotKeys -> {Val0, Val1}]
    \cup {EmptyAnnotation}
    \cup {[k \in AnnotKeys |-> IF k = KeyA THEN Val01 ELSE Val1]}

(***************************************************************************)
(* The filter as a state machine: the tree is built once from args.expr,  *)
(* then evaluated against annotation after annotation.                     *)
(***************************************************************************)

NoTree == Raised("not built")
NoAnnotation == EmptyAnnotation

FilterInit ==
    /\ given \in Exprs
    /\ expr = Render(given)
    /\ root = NoTree
    /\ annot = NoAnnotation
    /\ result = "none"
    /\ fpc = "start"
    \* no reader is opened
    /\ file = <<>> /\ vcf = <<>> /\ outOpen = FALSE
    /\ output = <<>> /\ line = 0 /\ fields = 0 /\ reading = FALSE
    /\ rpc = "idle" /\ args = 0 /\ call = 0 /\ ret = 0

\* tree = StemNode('root'); build_tree(args.expr, tree)
BuildTree ==
    /\ fpc = "start"
    /\ root' = build_tree(expr)
    /\ fpc' = "built"
    /\ UNCHANGED <<given, expr, annot, result, rvars>>

\* tree.eval(a)
EvalTree ==
    /\ fpc \in {"built", "evaluated"}
    /\ root.kind # "error"
    /\ \E a \in Annotations :
        /\ annot' = a
        /\ result' = RootEval(root, a)
    /\ fpc' = "evaluated"
    /\ UNCHANGED <<given, expr, root, rvars>>

NextFilter == BuildTree \/ EvalTree

SpecFilter == FilterInit /\ [][NextFilter]_vars

(***************************************************************************)
(* parse_vep_vcf.py: the lines of a VCF and vcf_reader                     *)
(*                                                                         *)
(* A line of the data section is a record of what the reader reads from   *)
(* it: whether it starts with '#', whether it splits into as many fields  *)
(* as the #CHROM line, its CHROM, POS, REF and ALT columns, the CSQ       *)
(* entries and allele counts of its INFO column, and its sample columns,  *)
(* each GT:GQ:DP.  POS is kept as a number (the normalizer is given       *)
(* numbers, see get_minimal_representation below).                        *)
(***************************************************************************)

KeySYMBOL == <<"S", "Y", "M", "B", "O", "L">>
KeyGene == <<"G", "e", "n", "e">>

\* self.vep_field_names, from the header's ID=CSQ line
vep_field_names == <<KeyA, KeySYMBOL, KeyGene>>

NoInfo == [AC |-> <<>>, AN |-> <<>>, AC_Adj |-> <<>>, AN_Adj |-> <<>>]

VcfLine(hash, cols_ok, chrom, pos, ref, alt, has_csq, csq, info, samples) ==
    [hash |-> hash, cols_ok |-> cols_ok, CHROM |-> chrom, POS |-> pos, REF |-> ref,
     ALT |-> alt, has_csq |-> has_csq, csq |-> csq, info |-> info, samples |-> samples,
     no |-> 0]

\* the stripped #CHROM line, left in self.line by the header loop
ChromLine == VcfLine(TRUE, TRUE, "", 0, <<>>, <<>>, FALSE, <<>>, NoInfo, <<>>)

\* the state of a vcf_reader object
Reader(v, o, l, f, rd, e) ==
    [vcf |-> v, outOpen |-> o, line |-> l, fields |-> f, reading |-> rd, exc |-> e]

Self == Reader(vcf, outOpen, line, fields, reading, "")

Install(r) ==
    /\ vcf' = r.vcf
    /\ outOpen' = r.outOpen
    /\ line' = r.line
    /\ fields' = r.fields
    /\ reading' = r.reading

\* self.vcf.next(): a closed file raises ValueError, a closed generator StopIteration
VcfNext(v) ==
    IF ~v.open
    THEN [what |-> IF v.kind = "file" THEN "ValueError" ELSE "StopIteration",
          line |-> ChromLine, vcf |-> v]
    ELSE IF v.lines = <<>> THEN [what |-> "StopIteration", line |-> ChromLine, vcf |-> v]
    ELSE [what |-> "line", line |-> Head(v.lines), vcf |-> [v EXCEPT !.lines = Tail(@)]]

FieldsError == "Exception: VCF header does not correspond with fields."

\* read_line: the next line becomes self.line, or the streams are closed; then
\* self.line is split and parsed whichever happened
read_line(r, hasOutput) ==
    LET n == VcfNext(r.vcf)
    IN  IF n.what = "ValueError" THEN [r EXCEPT !.exc = "ValueError"]
        ELSE LET r1 == IF n.what = "line"
                       THEN [r EXCEPT !.line = n.line, !.vcf = n.vcf]
                       ELSE [r EXCEPT !.vcf.open = FALSE,
                                      !.outOpen = IF hasOutput THEN FALSE ELSE @,
                                      !.reading = FALSE]
             IN  IF ~r1.line.cols_ok THEN [r1 EXCEPT !.exc = FieldsError]
                 ELSE [r1 EXCEPT !.fields = r1.line]

\* self.annotations of the line the fields were parsed from: None without CSQ,
\* else the entries with as many values as vep_field_names has names
Annotation(entry) ==
    [k \in SeqToSet(vep_field_names) |->
        entry[CHOOSE i \in 1..Len(vep_field_names) : vep_field_names[i] = k]]

RightLength(entry) == Len(vep_field_names) = Len(entry)

annotations(f) ==
    LET kept == SelectSeq(f.csq, RightLength)
    IN  [none |-> ~f.has_csq,
         list |-> IF f.has_csq THEN [i \in 1..Len(kept) |-> Annotation(kept[i])] ELSE <<>>]

\* vcf_reader.__init__: open the streams, read the header, read the first line
OpenReader(lines, hasOutput) ==
    LET r0 == Reader([kind |-> "file", lines |-> lines, open |-> TRUE], hasOutput,
                     ChromLine, ChromLine, FALSE, "")
        r1 == read_line(r0, hasOutput)
    IN  IF r1.exc # "" THEN r1 ELSE [r1 EXCEPT !.reading = TRUE]

\* read(): the generator from its `while self.reading` to its next yield, to its
\* end, or to an exception
RECURSIVE ReadToYield(_, _)
ReadToYield(r, hasOutput) ==
    IF ~r.reading THEN [at |-> "end", r |-> r]
    ELSE IF r.line.hash
    THEN LET n == VcfNext(r.vcf)
         IN  IF n.what = "ValueError"
             THEN [at |-> "raised", r |-> [r EXCEPT !.exc = "ValueError"]]
             ELSE IF n.what = "line"
             THEN ReadToYield([r EXCEPT !.line = n.line, !.vcf = n.vcf], hasOutput)
             ELSE ReadToYield([r EXCEPT !.reading = FALSE,
                                        !.outOpen = IF hasOutput THEN FALSE ELSE @],
                              hasOutput)
    ELSE [at |-> "yield", r |-> r]

(***************************************************************************)
(* subset_vep_vcf.py: subset, check_gene, read_in_genes                    *)
(***************************************************************************)

\* a gene-list argument is absent (None) or a comma-separated list; no file is read
NoArg == [given |-> FALSE, text |-> <<>>]
Arg(text) == [given |-> TRUE, text |-> text]

read_in_genes(arg) ==
    IF ~arg.given \/ arg.text = <<>> THEN <<>>
    ELSE PySplit(arg.text, <<",">>)

check_gene(a, hgnc, ensg) ==
    IF hgnc = <<>> /\ ensg = <<>> THEN TRUE
    ELSE IF hgnc # <<>> THEN a[KeySYMBOL] \in SeqToSet(hgnc)
    ELSE a[KeyGene] \in SeqToSet(ensg)

\* the loop over site.annotations: "write" at the first annotation that passes
\* the tree and the gene lists, "skip" when none does, or the exception eval raised
RECURSIVE ScanAnnotations(_, _, _, _, _)
ScanAnnotations(list, k, tree, hgnc, ensg) ==
    IF k > Len(list) THEN "skip"
    ELSE LET e == RootEval(tree, list[k])
         IN  IF e \notin {"True", "False"} THEN e
             ELSE IF e = "True" /\ check_gene(list[k], hgnc, ensg) THEN "write"
             ELSE ScanAnnotations(list, k + 1, tree, hgnc, ensg)

NoAnnotationsError == "Exception: No VEP annotations found."

\* the body, were a site without annotations passed over instead of refused
SiteBodySkippingUnannotated(f, tree, hgnc, ensg) ==
    ScanAnnotations(annotations(f).list, 1, tree, hgnc, ensg)

\* the body of `for site in vcf.read()` for the site the reader yielded
SiteBody(f, tree, hgnc, ensg) ==
    LET a == annotations(f)
    IN  IF a.none \/ a.list = <<>> THEN NoAnnotationsError
        ELSE ScanAnnotations(a.list, 1, tree, hgnc, ensg)

\* tree = StemNode('root'); build_tree(args.expr, tree); the gene lists are read;
\* vcf = vcf_reader(args.ivcf, output=args.ovcf)
SubsetStart ==
    /\ rpc = "start"
    /\ root' = build_tree(expr)
    /\ fpc' = "built"
    /\ IF root'.kind = "error"
       THEN /\ rpc' = "raised"
            /\ ret' = root'.exc
            /\ UNCHANGED <<vcf, outOpen, line, fields, reading>>
       ELSE LET r == OpenReader(file, args.ovcf)
            IN  /\ Install(r)
                /\ rpc' = IF r.exc # "" THEN "raised" ELSE "while"
                /\ ret' = r.exc
    /\ UNCHANGED <<given, expr, annot, result, file, output, args, call>>

\* `for site in vcf.read()` asks the generator for its next site
SubsetNext ==
    /\ rpc = "while"
    /\ LET g == ReadToYield(Self, args.ovcf)
       IN  /\ Install(g.r)
           /\ rpc' = IF g.at = "end" THEN "done" ELSE IF g.at = "yield" THEN "body" ELSE "raised"
           /\ ret' = g.r.exc
    /\ UNCHANGED <<fvars, file, output, args, call>>

\* the loop body: the site is written once, skipped, or the run is aborted
SubsetBody ==
    /\ rpc = "body"
    /\ LET b == SiteBody(fields, root, read_in_genes(args.symbol), read_in_genes(args.ensg))
       IN  /\ output' = IF b = "write" THEN Append(output, fields) ELSE output
           /\ rpc' = IF b \in {"write", "skip"} THEN "resume" ELSE "raised"
           /\ ret' = IF b \in {"write", "skip"} THEN "" ELSE b
    /\ UNCHANGED <<fvars, file, vcf, outOpen, line, fields, reading, args, call>>

\* the generator resumes after its yield: self.read_line()
SubsetResume ==
    /\ rpc = "resume"
    /\ LET r == read_line(Self, args.ovcf)
       IN  /\ Install(r)
           /\ rpc' = IF r.exc # "" THEN "raised" ELSE "while"
           /\ ret' = r.exc
    /\ UNCHANGED <<fvars, file, output, args, call>>

NextSubset == SubsetStart \/ SubsetNext \/ SubsetBody \/ SubsetResume

(***************************************************************************)
(* The inputs subset is run on                                             *)
(***************************************************************************)

ValG == <<"G">>
ValH == <<"H">>
ValE == <<"E">>
ValF == <<"F">>

\* CSQ entries, each the values of A|SYMBOL|Gene; the last has a value too few
EntryPass == <<Val1, ValG, ValE>>
EntryOtherGene == <<Val1, ValH, ValF>>
EntryFail == <<Val0, ValG, ValE>>
EntryShort == <<Val1, ValG>>

AnnotatedLine(has_csq, csq) ==
    VcfLine(FALSE, TRUE, "1", 5, <<"A">>, <<(<<"T">>)>>, has_csq, csq, NoInfo, <<>>)

SubsetLineKinds ==
    {AnnotatedLine(FALSE, <<>>)}
    \cup {AnnotatedLine(TRUE, c) :
            c \in {<<EntryShort>>, <<EntryPass>>, <<EntryFail>>, <<EntryOtherGene>>,
                   <<EntryFail, EntryPass>>, <<EntryPass, EntryPass>>,
                   <<EntryShort, EntryPass>>}}
    \* a data line with a field too few
    \cup {[AnnotatedLine(TRUE, <<EntryPass>>) EXCEPT !.cols_ok = FALSE]}
    \* a '#' line in the data section with as many fields as the header
    \cup {[AnnotatedLine(FALSE, <<>>) EXCEPT !.hash = TRUE]}

MaxLines == 3

Numbered(lines) == [i \in 1..Len(lines) |-> [lines[i] EXCEPT !.no = i]]

SubsetFiles ==
    UNION {{Numbered(f) : f \in [1..n -> SubsetLineKinds]} : n \in 0..MaxLines}

\* --symbol or --ensg or neither (the command line refuses both); -o is always set
SubsetArgs ==
    {[symbol |-> NoArg, ensg |-> NoArg, ovcf |-> TRUE],
     [symbol |-> Arg(ValG), ensg |-> NoArg, ovcf |-> TRUE],
     [symbol |-> NoArg, ensg |-> Arg(ValE), ovcf |-> TRUE]}

ClosedFile == [kind |-> "file", lines |-> <<>>, open |-> FALSE]

SubsetInit ==
    /\ given = Pred(KeyA, TokEQ, Val1, NoPad)
    /\ expr = Render(given)
    /\ root = NoTree
    /\ annot = NoAnnotation
    /\ result = "none"
    /\ fpc = "start"
    /\ file \in SubsetFiles
    /\ args \in SubsetArgs
    /\ vcf = ClosedFile
    /\ outOpen = FALSE
    /\ output = <<>>
    /\ line = ChromLine
    /\ fields = ChromLine
    /\ reading = FALSE
    /\ rpc = "start"
    /\ call = 0
    /\ ret = ""

SpecSubset == SubsetInit /\ [][NextSubset]_vars

(***************************************************************************)
(* minimal_representation.get_minimal_representation (spec 4.1): shared   *)
(* trailing bases are dropped, then shared leading bases, each of which   *)
(* moves the position by one; neither allele is emptied.                  *)
(***************************************************************************)

RECURSIVE TrimSuffix(_, _)
TrimSuffix(ref, alt) ==
    IF Len(ref) > 1 /\ Len(alt) > 1 /\ ref[Len(ref)] = alt[Len(alt)]
    THEN TrimSuffix(SubSeq(ref, 1, Len(ref) - 1), SubSeq(alt, 1, Len(alt) - 1))
    ELSE <<ref, alt>>

RECURSIVE TrimPrefix(_, _, _)
TrimPrefix(pos, ref, alt) ==
    IF Len(ref) > 1 /\ Len(alt) > 1 /\ ref[1] = alt[1]
    THEN TrimPrefix(pos + 1, Tail(ref), Tail(alt))
    ELSE <<pos, ref, alt>>

get_minimal_representation(pos, ref, alt) ==
    LET t == TrimSuffix(ref, alt)
    IN  TrimPrefix(pos, t[1], t[2])

(***************************************************************************)
(* parse_vep_vcf.py: go_to, seek_out_variant                               *)
(***************************************************************************)

\* what `tabix file chrom:start-end` prints for an indexed file: the data lines
\* of the file that overlap the region, in file order
TabixRegion(lines, chrom, start, end) ==
    LET Overlaps(l) ==
            /\ l.CHROM = chrom
            /\ l.POS <= end
            /\ l.POS + Len(l.REF) - 1 >= start
    IN  SelectSeq(lines, Overlaps)

\* go_to: self.vcf becomes a generator over the lines printed, unless none was
go_to(r, lines, chrom, start, end) ==
    LET stdout == TabixRegion(lines, chrom, start, end)
    IN  IF stdout = <<>> THEN r
        ELSE [r EXCEPT !.vcf = [kind |-> "generator", lines |-> stdout, open |-> TRUE]]

Max(a, b) == IF a >= b THEN a ELSE b

\* 1-based place of the first element of seq equal to x (0 when there is none)
IndexOf(seq, x) ==
    IF \E i \in 1..Len(seq) : seq[i] = x
    THEN CHOOSE i \in 1..Len(seq) : seq[i] = x /\ \A j \in 1..(i - 1) : seq[j] # x
    ELSE 0

\* the candidates of the site the fields were parsed from
Candidates(f) ==
    [i \in 1..Len(f.ALT) |-> get_minimal_representation(f.POS, f.REF, f.ALT[i])]

\* `for line in self.read()` of seek_out_variant: allele_number is 0 for False
RECURSIVE SeekLoop(_, _, _)
SeekLoop(r, target, hasOutput) ==
    LET g == ReadToYield(r, hasOutput)
    IN  IF g.at # "yield" THEN [allele_number |-> 0, r |-> g.r]
        ELSE LET n == IndexOf(Candidates(g.r.fields), target)
             IN  IF n # 0 THEN [allele_number |-> n, r |-> g.r]
                 ELSE LET r1 == read_line(g.r, hasOutput)
                      IN  IF r1.exc # "" THEN [allele_number |-> 0, r |-> r1]
                          ELSE SeekLoop(r1, target, hasOutput)

seek_out_variant(r, lines, chrom, pos, ref, alt, hasOutput) ==
    LET leeway == Max(Len(ref), Len(alt))
        target == get_minimal_representation(pos, ref, alt)
    IN  SeekLoop(go_to(r, lines, chrom, pos - leeway, pos + leeway), target, hasOutput)

(***************************************************************************)
(* parse_vep_vcf.py: get_genotype_for_variant, get_allele_frequency        *)
(***************************************************************************)

Digits == <<"0", "1", "2", "3", "4", "5", "6", "7", "8", "9">>
IsDigit(c) == \E i \in 1..Len(Digits) : Digits[i] = c
DigitValue(c) == (CHOOSE i \in 1..Len(Digits) : Digits[i] = c) - 1

\* int(s) / float(s) of a string of digits; anything else raises ValueError
RECURSIVE DecimalValue(_)
DecimalValue(s) ==
    IF s = <<>> THEN 0
    ELSE 10 * DecimalValue(SubSeq(s, 1, Len(s) - 1)) + DigitValue(s[Len(s)])

PyInt(s) ==
    IF s # <<>> /\ \A i \in 1..Len(s) : IsDigit(s[i])
    THEN [ok |-> TRUE, v |-> DecimalValue(s)]
    ELSE [ok |-> FALSE, v |-> 0]

\* re.split('/|\|', gt)
RECURSIVE SplitAlleles(_)
SplitAlleles(gt) ==
    LET cuts == {i \in 1..Len(gt) : gt[i] \in {"/", "|"}}
    IN  IF cuts = {} THEN <<gt>>
        ELSE LET i == CHOOSE c \in cuts : \A d \in cuts : c <= d
             IN  <<SubSeq(gt, 1, i - 1)>> \o SplitAlleles(SubSeq(gt, i + 1, Len(gt)))

NoCall == <<".", "/", ".">>
Missing == <<".">>

\* a threshold: float("-inf") or a number
NegInf == [neginf |-> TRUE, v |-> 0]
Threshold(v) == [neginf |-> FALSE, v |-> v]

\* int(x) < threshold
IntBelow(n, threshold) == ~threshold.neginf /\ n < threshold.v

\* x < threshold for a string x and a number: Python 2 orders every number
\* before every string
StrBelow(s, threshold) == FALSE

Returned(kind) ==
    [kind |-> kind, allele_number |-> 0, hom_refs |-> {}, hets |-> {}, hom_alts |-> {},
     ac |-> 0, an |-> 0, exc |-> ""]

\* the loop over self.sample_names, from sample k on; acc holds the three sets
RECURSIVE ClassifySamples(_, _, _, _, _, _)
ClassifySamples(samples, k, allele_number, gq_threshold, dp_threshold, acc) ==
    IF k > Len(samples) THEN acc
    ELSE LET s == samples[k]
             rest(a) == ClassifySamples(samples, k + 1, allele_number,
                                        gq_threshold, dp_threshold, a)
         IN  IF s.GT = NoCall THEN rest(acc)
             ELSE IF s.GQ = Missing \/ s.DP = Missing THEN rest(acc)
             ELSE IF ~PyInt(s.GQ).ok \/ ~PyInt(s.DP).ok
                  THEN [acc EXCEPT !.kind = "raised", !.exc = "ValueError"]
             ELSE IF IntBelow(PyInt(s.GQ).v, gq_threshold)
                     \/ IntBelow(PyInt(s.DP).v, dp_threshold) THEN rest(acc)
             ELSE LET alleles == SplitAlleles(s.GT)
                  IN  IF \E i \in 1..Len(alleles) : ~PyInt(alleles[i]).ok
                      THEN [acc EXCEPT !.kind = "raised", !.exc = "ValueError"]
                      ELSE LET lofs == Cardinality({i \in 1..Len(alleles) :
                                            PyInt(alleles[i]).v = allele_number})
                           IN  IF lofs = 0 THEN rest([acc EXCEPT !.hom_refs = @ \cup {k}])
                               ELSE IF lofs = 1 THEN rest([acc EXCEPT !.hets = @ \cup {k}])
                               ELSE IF lofs = 2 THEN rest([acc EXCEPT !.hom_alts = @ \cup {k}])
                               ELSE rest(acc)

\* returns what was returned and the reader as the call left it
get_genotype_for_variant(r, lines, chrom, pos, ref, alt, gq_threshold, dp_threshold, hasOutput) ==
    LET s == seek_out_variant(r, lines, chrom, pos, ref, alt, hasOutput)
    IN  IF s.r.exc # "" THEN [ret |-> [Returned("raised") EXCEPT !.exc = s.r.exc], r |-> s.r]
        ELSE IF s.allele_number = 0 THEN [ret |-> Returned("False"), r |-> s.r]
        ELSE IF s.r.fields.samples = <<>>
             THEN [ret |-> [Returned("raised") EXCEPT !.exc = "Exception: Fields missing."],
                   r |-> s.r]
        ELSE [ret |-> ClassifySamples(s.r.fields.samples, 1, s.allele_number,
                        gq_threshold, dp_threshold,
                        [Returned("genotypes") EXCEPT !.allele_number = s.allele_number]),
              r |-> s.r]

\* str(allele_num) for the allele numbers of the model
PyStr(n) == <<Digits[n + 1]>>

\* the loop of mode 'count_alleles', from sample k on
RECURSIVE CountAlleles(_, _, _, _, _, _)
CountAlleles(samples, k, allele_num, gq_threshold, dp_threshold, acc) ==
    IF k > Len(samples) THEN acc
    ELSE LET s == samples[k]
             rest(a) == CountAlleles(samples, k + 1, allele_num, gq_threshold,
                                     dp_threshold, a)
         IN  IF s.GT = NoCall THEN rest(acc)
             ELSE IF StrBelow(s.GQ, gq_threshold) \/ StrBelow(s.DP, dp_threshold)
                  THEN rest(acc)
             ELSE LET alleles == SplitAlleles(s.GT)
                  IN  rest([acc EXCEPT
                        !.ac = @ + Cardinality({i \in 1..Len(alleles) :
                                                    alleles[i] = PyStr(allele_num)}),
                        !.an = @ + Cardinality({i \in 1..Len(alleles) :
                                                    alleles[i] # Missing})])

\* float(ac) / float(an), kept as the pair; None when float(an) == 0
Ratio(ac, an) ==
    IF an = 0 THEN Returned("None")
    ELSE [Returned("frequency") EXCEPT !.ac = ac, !.an = an]

InfoRatio(acs, an, allele_idx) ==
    LET parts == PySplit(acs, <<",">>)
    IN  IF allele_idx + 1 > Len(parts)
        THEN [Returned("raised") EXCEPT !.exc = "IndexError"]
        ELSE IF ~PyInt(an).ok \/ ~PyInt(parts[allele_idx + 1]).ok
        THEN [Returned("raised") EXCEPT !.exc = "ValueError"]
        ELSE Ratio(PyInt(parts[allele_idx + 1]).v, PyInt(an).v)

\* an INFO key is absent when the line gives it no value
get_allele_frequency(f, allele_num, mode, gq_threshold, dp_threshold) ==
    IF mode = "query_info"
    THEN IF f.info.AC_Adj # <<>> THEN InfoRatio(f.info.AC_Adj, f.info.AN_Adj, allele_num - 1)
         ELSE IF f.info.AC # <<>> THEN InfoRatio(f.info.AC, f.info.AN, allele_num - 1)
         ELSE [Returned("raised") EXCEPT !.exc = "Exception"]
    ELSE IF mode = "count_alleles"
    THEN IF f.samples = <<>>
         THEN [Returned("raised") EXCEPT !.exc = "Exception: Check formatting."]
         ELSE
         LET c == CountAlleles(f.samples, 1, allele_num, gq_threshold, dp_threshold,
                               Returned("counting"))
         IN  Ratio(c.ac, c.an)
    ELSE [Returned("raised") EXCEPT !.exc = "Exception: Improper mode"]

(***************************************************************************)
(* A program that opens a reader without output and then locates          *)
(* variants, reads genotypes and allele frequencies, and reads on         *)
(***************************************************************************)

Sample(gt, gq, dp) == [GT |-> gt, GQ |-> gq, DP |-> dp]

Str30 == <<"3", "0">>
Str5 == <<"5">>
Het == <<"0", "/", "1">>
HomAlt == <<"1", "/", "1">>

Site(chrom, pos, ref, alt, info, samples) ==
    VcfLine(FALSE, TRUE, chrom, pos, ref, alt, FALSE, <<>>, info, samples)

Info(ac, an) == [AC |-> ac, AN |-> an, AC_Adj |-> <<>>, AN_Adj |-> <<>>]
InfoAdj(ac, an, ac_adj, an_adj) == [AC |-> ac, AN |-> an, AC_Adj |-> ac_adj, AN_Adj |-> an_adj]

BaseA == <<"A">>
BaseC == <<"C">>
BaseG == <<"G">>
BaseT == <<"T">>

\* the sites of the files the locator is run on, in file order
SiteCatalog ==
    <<Site("1", 4, <<"G", "A">>, <<(<<"G", "T">>)>>,
           Info(<<"3">>, <<"1", "0">>), <<Sample(Het, Str30, Str30)>>),
      Site("1", 5, BaseA, <<BaseG, BaseC, <<"A", "T">> >>,
           Info(<<"3", ",", "0", ",", "1">>, <<"1", "0">>), <<Sample(HomAlt, Str30, Str5)>>),
      Site("1", 9, BaseA, <<BaseT>>,
           Info(<<"3">>, <<"0">>), <<Sample(Het, Str5, Str30)>>),
      Site("2", 5, BaseA, <<BaseT>>,
           InfoAdj(<<"3">>, <<"1", "0">>, <<"2">>, <<"8">>), <<Sample(Het, Missing, Str30)>>)>>

MaxSites == 3

\* the files with at most MaxSites of the catalog's sites, in the catalog's order
SeekFiles ==
    {Numbered(SelectSeq(SiteCatalog, LAMBDA s : s \in chosen)) :
        chosen \in {c \in SUBSET SeqToSet(SiteCatalog) : Cardinality(c) \in 1..MaxSites}}

Genotypes ==
    {NoCall, <<".", "|", ".">>, <<".", "/", "1">>, <<"0", "/", "0">>, Het,
     <<"1", "|", "0">>, HomAlt, <<"1", "|", "2">>, <<"2", "/", "2">>}

Qualities == {<<Str30, Str30>>, <<Str5, Str30>>, <<Str30, Str5>>, <<Missing, Str30>>,
              <<Str30, Missing>>}

FirstSamples == {Sample(gt, q[1], q[2]) : gt \in Genotypes, q \in Qualities}
OtherSamples == {Sample(Het, Str30, Str30), Sample(HomAlt, Str5, Str30)}

NumSamples == 2

\* one site, A > C,T at 1:5, whose samples vary
GenotypeFiles ==
    {Numbered(<<Site("1", 5, BaseA, <<BaseC, BaseT>>, Info(<<"3", ",", "0">>, <<"1", "0">>),
                     samples)>>) :
        samples \in {s \in [1..NumSamples -> FirstSamples \cup OtherSamples] :
                        \A i \in 2..NumSamples : s[i] \in OtherSamples}}

Query(chrom, pos, ref, alt) == [chrom |-> chrom, pos |-> pos, ref |-> ref, alt |-> alt]

Queries ==
    {Query("1", 5, BaseA, BaseT), Query("1", 5, BaseA, BaseC),
     Query("1", 4, <<"G", "A">>, <<"G", "T">>), Query("2", 5, BaseA, BaseT)}

\* gq_threshold and dp_threshold: the defaults, or one of them set
ThresholdPairs == {<<NegInf, NegInf>>, <<Threshold(20), NegInf>>, <<NegInf, Threshold(20)>>}

Called(op, q, gq, dp, allele_num, mode) ==
    [op |-> op, q |-> q, gq |-> gq, dp |-> dp, allele_num |-> allele_num, mode |-> mode]

NoQuery == Query("", 0, <<>>, <<>>)
NotCalled == Called("none", NoQuery, NegInf, NegInf, 0, "")

LocatorInit ==
    /\ given = EmptyExpr
    /\ expr = <<>>
    /\ root = NoTree
    /\ annot = NoAnnotation
    /\ result = "none"
    /\ fpc = "unused"
    /\ file \in SeekFiles \cup GenotypeFiles
    /\ args = [symbol |-> NoArg, ensg |-> NoArg, ovcf |-> FALSE]
    /\ vcf = ClosedFile
    /\ outOpen = FALSE
    /\ output = <<>>
    /\ line = ChromLine
    /\ fields = ChromLine
    /\ reading = FALSE
    /\ rpc = "start"
    /\ call = NotCalled
    /\ ret = Returned("none")

\* reader = vcf_reader(path)
LocatorOpen ==
    /\ rpc = "start"
    /\ LET r == OpenReader(file, args.ovcf)
       IN  /\ Install(r)
           /\ rpc' = IF r.exc # "" THEN "raised" ELSE "ready"
           /\ ret' = [Returned("none") EXCEPT !.exc = r.exc]
    /\ UNCHANGED <<fvars, file, output, args, call>>

\* a `for site in reader.read()` of the caller, suspended at its yield, takes the
\* next site
LocatorRead ==
    /\ rpc = "ready"
    /\ reading
    /\ LET r1 == read_line(Self, args.ovcf)
           g == ReadToYield(r1, args.ovcf)
           r2 == IF r1.exc # "" THEN r1 ELSE g.r
       IN  /\ Install(r2)
           /\ rpc' = IF r2.exc # "" THEN "raised" ELSE "ready"
           /\ ret' = [Returned(IF r2.reading THEN "site" ELSE "end") EXCEPT !.exc = r2.exc]
    /\ call' = Called("read", NoQuery, NegInf, NegInf, 0, "")
    /\ UNCHANGED <<fvars, file, output, args>>

\* reader.seek_out_variant(chrom, pos, ref, alt)
LocatorSeek ==
    /\ rpc = "ready"
    /\ \E q \in Queries :
        LET s == seek_out_variant(Self, file, q.chrom, q.pos, q.ref, q.alt, args.ovcf)
        IN  /\ Install(s.r)
            /\ rpc' = IF s.r.exc # "" THEN "raised" ELSE "ready"
            /\ call' = Called("seek_out_variant", q, NegInf, NegInf, 0, "")
            /\ ret' = IF s.r.exc # "" THEN [Returned("raised") EXCEPT !.exc = s.r.exc]
                      ELSE IF s.allele_number = 0 THEN Returned("False")
                      ELSE [Returned("allele_number") EXCEPT
                                !.allele_number = s.allele_number]
    /\ UNCHANGED <<fvars, file, output, args>>

\* reader.get_genotype_for_variant(chrom, pos, ref, alt, gq_threshold, dp_threshold)
LocatorGenotype ==
    /\ rpc = "ready"
    /\ \E q \in Queries, t \in ThresholdPairs :
        LET g == get_genotype_for_variant(Self, file, q.chrom, q.pos, q.ref, q.alt,
                                          t[1], t[2], args.ovcf)
        IN  /\ Install(g.r)
            /\ rpc' = IF g.ret.kind = "raised" THEN "raised" ELSE "ready"
            /\ call' = Called("get_genotype_for_variant", q, t[1], t[2], 0, "")
            /\ ret' = g.ret
    /\ UNCHANGED <<fvars, file, output, args>>

AlleleNumbers == {1, 2}
Modes == {"query_info", "count_alleles", "info_field"}

\* reader.get_allele_frequency(allele_num, mode, gq_threshold, dp_threshold) for
\* the current site; the thresholds are read in mode 'count_alleles' only
LocatorFrequency ==
    /\ rpc = "ready"
    /\ \E k \in AlleleNumbers, mode \in Modes, t \in ThresholdPairs :
        /\ mode # "count_alleles" => (t[1] = NegInf /\ t[2] = NegInf)
        /\ ret' = get_allele_frequency(fields, k, mode, t[1], t[2])
        /\ rpc' = IF ret'.kind = "raised" THEN "raised" ELSE "ready"
        /\ call' = Called("get_allele_frequency", NoQuery, t[1], t[2], k, mode)
    /\ UNCHANGED <<fvars, file, vcf, outOpen, output, line, fields, reading, args>>

NextLocator ==
    \/ LocatorOpen
    \/ LocatorRead
    \/ LocatorSeek
    \/ LocatorGenotype
    \/ LocatorFrequency

SpecLocator == LocatorInit /\ [][NextLocator]_vars

(***************************************************************************)
(* Properties of the filter-expression parser and evaluator               *)
(***************************************************************************)

Built == fpc \in {"built", "evaluated"}

\* C1: the empty expression builds without error and evaluates to true for
\* every annotation map, the empty map included.
C1_EmptyExpressionAcceptsAll ==
    (Built /\ expr = <<>>) =>
        /\ root.kind # "error"
        /\ fpc = "evaluated" => result = "True"

\* an expression some level of which joins its clauses with both '&' and '|'
MixesConjunctions(g) == ~OneConjPerLevel(g)

\* predicate conj ( predicate conj predicate ), the two conjunctions differing
SeparatedByParentheses(g) ==
    /\ g.t = "level" /\ Len(g.kids) = 2
    /\ g.kids[1].t = "pred" /\ g.kids[2].t = "paren"
    /\ g.kids[2].kids[1] \in Two
    /\ g.kids[2].kids[1].conjs[1] # g.conjs[1]

\* C2: build_tree raises for every expression that mixes '&' and '|' at depth 0
\* of the whole expression or of the contents of a parenthesized
\* sub-expression, and parses an expression whose mixing is separated by
\* parentheses.
C2_MixedConjunctionsRejected ==
    (Built) =>
        /\ MixesConjunctions(given) => root.kind = "error"
        /\ SeparatedByParentheses(given) => root.kind # "error"

\* C3: every expression of the grammar with one conjunction per nesting level
\* builds, and evaluates to its Boolean value on every annotation that holds
\* the keys it names.
C3_GrammarEvaluatesToMeaning ==
    (Built /\ given \in TreeExprs /\ OneConjPerLevel(given)) =>
        /\ root.kind # "error"
        /\ (fpc = "evaluated" /\ KeysOf(given) \subseteq DOMAIN annot) =>
                result = Truth(Meaning(given, annot))

\* C9: a single predicate `key op value` becomes a leaf with that key, that
\* operator and that value, whatever operator-like text the key or the value
\* holds.
C9_LeafSplitsAtItsOperator ==
    (Built /\ given.t = "pred") =>
        /\ root.kind = "leaf"
        /\ root.oper = given.op
        /\ root.key = given.k
        /\ root.val = given.v

(***************************************************************************)
(* Properties of subset                                                    *)
(***************************************************************************)

Ended == rpc \in {"done", "raised"}

\* a data line with as many fields as the header
IsRecord(l) == ~l.hash /\ l.cols_ok
AllRecords == \A i \in 1..Len(file) : IsRecord(file[i])

\* the gene restriction of the run, from its arguments
GeneMember(a) ==
    /\ args.symbol.given => a[KeySYMBOL] \in SeqToSet(PySplit(args.symbol.text, <<",">>))
    /\ args.ensg.given => a[KeyGene] \in SeqToSet(PySplit(args.ensg.text, <<",">>))

\* the record has an annotation satisfying the filter and the gene restriction
Satisfies(l) ==
    \E i \in 1..Len(annotations(l).list) :
        /\ Meaning(given, annotations(l).list[i])
        /\ GeneMember(annotations(l).list[i])

Unannotated(l) == annotations(l).none \/ annotations(l).list = <<>>

\* the records before the first one without annotations
BeforeFirstUnannotated ==
    LET bad == {i \in 1..Len(file) : Unannotated(file[i])}
    IN  IF bad = {} THEN file
        ELSE SubSeq(file, 1, (CHOOSE i \in bad : \A j \in bad : i <= j) - 1)

\* C4 as stated: the output is the subsequence of the records with a satisfying
\* annotation; a record without annotations is skipped like any other.
C4_OutputIsMatchingSubsequence ==
    (Ended /\ AllRecords) => output = SelectSeq(file, Satisfies)

\* C4 as amended: the output is the subsequence of the satisfying records among
\* those before the first record without annotations, each written once; at
\* that record the run is aborted with "No VEP annotations found.".
C4_OutputUpToFirstUnannotated ==
    (Ended /\ AllRecords) =>
        /\ output = SelectSeq(BeforeFirstUnannotated, Satisfies)
        /\ (BeforeFirstUnannotated # file) <=> (rpc = "raised" /\ ret = NoAnnotationsError)

\* a run aborted at a record without annotations, after a record was written and
\* before a satisfying record was read
C4_Witness ==
    /\ AllRecords
    /\ rpc = "raised" /\ ret = NoAnnotationsError
    /\ Len(output) = 1
    /\ Len(annotations(output[1]).list) = 2
    /\ Satisfies(file[Len(file)])
    /\ Len(BeforeFirstUnannotated) < Len(file) - 1

\* C10: once the run has ended, by exhaustion of the input or by a data line
\* whose field count differs from the header's, the input stream and the output
\* stream are closed.
C10_StreamsClosedAtEnd ==
    ((rpc = "done" \/ (rpc = "raised" /\ ret = FieldsError))) =>
        /\ ~vcf.open
        /\ ~outOpen

(***************************************************************************)
(* Properties of the locator and of the extractors                         *)
(***************************************************************************)

\* the lines the region fetch of seek_out_variant(q) returns
FetchedFor(q) ==
    LET leeway == Max(Len(q.ref), Len(q.alt))
    IN  TabixRegion(file, q.chrom, q.pos - leeway, q.pos + leeway)

TargetOf(q) == get_minimal_representation(q.pos, q.ref, q.alt)

\* the sites among `lines` with an ALT whose minimal representation is q's
MatchesIn(lines, q) == {i \in 1..Len(lines) : IndexOf(Candidates(lines[i]), TargetOf(q)) # 0}

\* C5: when the region fetch returns no lines, seek_out_variant returns False,
\* whatever the current record and the unread lines are.
C5_EmptyRegionIsNotFound ==
    (call.op = "seek_out_variant" /\ FetchedFor(call.q) = <<>>) => ret.kind = "False"

\* C6: seek_out_variant returns the 1-based place of the first matching ALT of
\* the first matching site its own region fetch returned, leaving that site
\* current, and False iff no fetched site matches, whatever came before (here
\* for a fetch that returned lines; C5 is the fetch that returned none).
C6_SeekScansItsOwnRegion ==
    (call.op = "seek_out_variant" /\ FetchedFor(call.q) # <<>>) =>
        LET lines == FetchedFor(call.q)
            hits == MatchesIn(lines, call.q)
        IN  IF hits = {} THEN ret.kind = "False"
            ELSE LET first == lines[CHOOSE i \in hits : \A j \in hits : i <= j]
                 IN  /\ ret.kind = "allele_number"
                     /\ ret.allele_number = IndexOf(Candidates(first), TargetOf(call.q))
                     /\ fields = first

\* a genotype of two allele calls, "./." among them
Diploid(s) == Len(SplitAlleles(s.GT)) = 2

\* a diploid genotype that is "./." or whose two allele calls are both numbers
FullyCalled(s) ==
    /\ Diploid(s)
    /\ \/ s.GT = NoCall
       \/ \A i \in 1..2 : PyInt(SplitAlleles(s.GT)[i]).ok

\* the sample's GQ or DP is a number below the threshold of the call
BelowThreshold(s) ==
    \/ (~call.gq.neginf /\ s.GQ # Missing /\ DecimalValue(s.GQ) < call.gq.v)
    \/ (~call.dp.neginf /\ s.DP # Missing /\ DecimalValue(s.DP) < call.dp.v)

Excluded(s) == s.GT = NoCall \/ s.GQ = Missing \/ s.DP = Missing \/ BelowThreshold(s)

\* how many of the sample's allele calls are allele k
CallsOf(s, k) ==
    Cardinality({i \in 1..Len(SplitAlleles(s.GT)) : SplitAlleles(s.GT)[i] = PyStr(k)})

\* the statement of C7 over the samples that Of selects
GenotypeSets(Of(_)) ==
    (call.op = "get_genotype_for_variant" /\ ret.allele_number > 0) =>
        LET S == fields.samples
            k == ret.allele_number
            In(i) == {n \in {"hom_refs", "hets", "hom_alts"} : i \in ret[n]}
        IN  /\ (\A i \in 1..Len(S) : Of(S[i])) => ret.kind = "genotypes"
            /\ ret.kind = "genotypes" =>
                /\ ret.hom_refs \cap ret.hets = {}
                /\ ret.hom_refs \cap ret.hom_alts = {}
                /\ ret.hets \cap ret.hom_alts = {}
                /\ ret.hom_refs \cup ret.hets \cup ret.hom_alts \subseteq 1..Len(S)
                /\ \A i \in 1..Len(S) :
                    Of(S[i]) =>
                        IF Excluded(S[i]) THEN In(i) = {}
                        ELSE IF CallsOf(S[i], k) = 0 THEN In(i) = {"hom_refs"}
                        ELSE IF CallsOf(S[i], k) = 1 THEN In(i) = {"hets"}
                        ELSE In(i) = {"hom_alts"}

\* C7: for a located variant with allele index k the call returns three
\* pairwise disjoint sets; a sample with a diploid genotype is in none of them
\* if its genotype is "./.", its GQ or DP is "." or below the threshold, and
\* else in exactly the one its number of alleles equal to k names; the default
\* thresholds remove no sample.
C7_GenotypeSets == GenotypeSets(Diploid)

\* the same over the samples whose allele calls are all numbers, which is as
\* far as the statement goes: int() of a "." allele call raises ValueError
GenotypeSetsOfCalledSamples == GenotypeSets(FullyCalled)

\* a located variant, a sample classified hom-alt and a sample removed by the GQ
\* threshold
CalledSamplesClassified ==
    /\ call.op = "get_genotype_for_variant"
    /\ ret.kind = "genotypes"
    /\ call.gq = Threshold(20)
    /\ Len(fields.samples) >= 2
    /\ ret.hom_alts = {1}
    /\ fields.samples[2].GT = HomAlt
    /\ fields.samples[2].GQ = Str5
    /\ 2 \notin ret.hom_refs \cup ret.hets \cup ret.hom_alts

\* AC and AN over the samples from k on that pass the QC of
\* get_genotype_for_variant
RECURSIVE CountsWithQC(_, _, _)
CountsWithQC(S, i, k) ==
    IF i > Len(S) THEN [ac |-> 0, an |-> 0]
    ELSE LET rest == CountsWithQC(S, i + 1, k)
             alleles == SplitAlleles(S[i].GT)
         IN  IF Excluded(S[i]) THEN rest
             ELSE [ac |-> rest.ac + CallsOf(S[i], k),
                   an |-> rest.an + Cardinality({j \in 1..Len(alleles) :
                                                    alleles[j] # Missing})]

\* C8: in mode 'count_alleles' a sample whose genotype is "./.", whose GQ or DP
\* is missing or below its threshold counts in neither AC nor AN; the result is
\* AC/AN over the other samples, or None when AN is 0.
C8_CountAllelesAppliesQC ==
    (call.op = "get_allele_frequency" /\ call.mode = "count_alleles") =>
        LET want == CountsWithQC(fields.samples, 1, call.allele_num)
        IN  IF want.an = 0 THEN ret.kind = "None"
            ELSE /\ ret.kind = "frequency"
                 /\ ret.ac * want.an = want.ac * ret.an

====
